---- MODULE Spec2Model ----
(***************************************************************************)
(* A model of the telnet client of pkg/telnet/telnet.go: the client        *)
(* struct (address, timeout, in, out, conn) guarded by a sync.RWMutex, its *)
(* four methods Connect, Close, Send and Receive run by concurrent tasks,  *)
(* and the line-buffered reader readOut built on bufio.Reader.ReadBytes;   *)
(* and of main of cmd/main.go, which connects, runs the two relay loops    *)
(* and closes the client when a signal or an error ends them.              *)
(*                                                                         *)
(* The environment (the input stream, the network, the peer) is modelled   *)
(* by what the Go library types do: a source delivers to one Read call all *)
(* bytes it holds, up to the space offered (bytes.Buffer, net.Conn, a      *)
(* pipe), reports io.EOF once it is exhausted and ended, and blocks        *)
(* otherwise.                                                              *)
(***************************************************************************)
EXTENDS Integers, Sequences, FiniteSets, TLC

\* ---------------------------------------------------------------- bounds
\* Number of calls the tasks may start in one behaviour.
MaxCalls == 4
\* Number of dials that may succeed (each yields a fresh connection handle).
MaxHandles == 2
\* Size of the bufio.Reader buffer, scaled down from bufio's 4096.
BufSize == 2
\* Longest content of a stream (input stream, bytes sent by the peer).
MaxLen == 3

\* ---------------------------------------------------------------- values
Tasks == {1, 2}
\* The tasks of cmd/main.go: the two relay goroutines and main itself.
Sender == 1
Receiver == 2
Main == 3
Relays == {Sender, Receiver}
MainTasks == {Sender, Receiver, Main}
\* cap(errCh)
ErrChCap == 1
NL == 0
CH == 1
Byte == {NL, CH}

\* The nil net.Conn, and a torn interface value (type word of the old value,
\* data word of the nil written by a racing Close).
NoConn == 0
TornConn == -1
Handles == 1..MaxHandles

RECURSIVE SeqsUpTo(_)
SeqsUpTo(n) ==
    IF n = 0 THEN {<<>>}
    ELSE LET S == SeqsUpTo(n - 1)
         IN  S \cup {Append(s, b) : s \in {x \in S : Len(x) = n - 1}, b \in Byte}

\* An error value is the set of sentinels errors.Is reports for its chain,
\* with the kind of the outermost wrapper. NilErr is the nil error.
NilErr == [kind |-> "nil", is |-> {}]
IoEOF == [kind |-> "io.EOF", is |-> {"io.EOF"}]
NetErrClosed == [kind |-> "net.ErrClosed", is |-> {"net.ErrClosed"}]
OtherErr == [kind |-> "other", is |-> {}]
ErrEOT == [kind |-> "ErrEOT", is |-> {"ErrEOT"}]
ErrConnClosed == [kind |-> "ErrConnClosed", is |-> {"ErrConnClosed"}]
InCloseErr == [kind |-> "in.Close", is |-> {"in"}]
ConnCloseErr == [kind |-> "conn.Close", is |-> {"conn"}]

ErrorsIs(e, target) == target \in e.is

\* fmt.Errorf("...: %w", err) and fmt.Errorf("%w: %w", a, b).
Wrap(k, e) == [kind |-> k, is |-> e.is]
Wrap2(a, b) == [kind |-> a.kind, is |-> a.is \cup b.is]
ConfigErr == [kind |-> "nil parameter", is |-> {}]

OsErrClosed == [kind |-> "os.ErrClosed", is |-> {"os.ErrClosed"}]
DialErr == [kind |-> "dial", is |-> {"dial"}]
NoRet == [kind |-> "running", is |-> {}]

\* The input stream as the source of a read (c.in), beside the handles.
InSrc == -2

Take(s, n) == SubSeq(s, 1, IF Len(s) < n THEN Len(s) ELSE n)
Drop(s, n) == SubSeq(s, n + 1, Len(s))

\* ------------------------------------------------------- bufio and readOut
\* A search that takes the first byte, whatever it is, for the terminator.
IndexNLAnyByte(buf) == IF Len(buf) > 0 THEN 1 ELSE 0

\* bytes.IndexByte(buf, '\n') + 1: the position of the first terminator, or 0.
IndexNL(buf) ==
    IF \E i \in 1..Len(buf) : buf[i] = NL
    THEN CHOOSE i \in 1..Len(buf) : buf[i] = NL /\ \A j \in 1..(i - 1) : buf[j] # NL
    ELSE 0

\* A reader that returns after its first line, whatever the buffer holds.
NotExpectingMoreFirstLine(buf) == TRUE

\* reader.Buffered() == 0 after a line was returned: telnet.go:169.
NotExpectingMore(buf) == Len(buf) = 0

\* A reader that keeps the last line in place of the accumulated ones.
AccumulateLastLine(res, line) == line

\* telnet.go:156: res = append(res, line...)
Accumulate(res, line) == res \o line

\* A reader that takes a clean end-of-stream for a successful empty read.
ReadOutErrorEOFSuccess(err, buffered) ==
    IF ErrorsIs(err, "io.EOF") THEN [st |-> "ret", err |-> NilErr]
    ELSE IF ErrorsIs(err, "net.ErrClosed")
         THEN [st |-> "ret", err |-> Wrap2(ErrConnClosed, err)]
         ELSE [st |-> "ret", err |-> Wrap("reading failed", err)]

\* What readOut returns from its error branch (telnet.go:157-168), given the
\* error ReadBytes returned; buffered is reader.Buffered() at that point.
\* "again" is the continue of line 162.
ReadOutError(err, buffered) ==
    IF ErrorsIs(err, "io.EOF")
    THEN IF buffered = 0 THEN [st |-> "ret", err |-> ErrEOT]
         ELSE [st |-> "again", err |-> NilErr]
    ELSE IF ErrorsIs(err, "net.ErrClosed")
         THEN [st |-> "ret", err |-> Wrap2(ErrConnClosed, err)]
         ELSE [st |-> "ret", err |-> Wrap("reading failed", err)]

\* The loop of readOut from the return of one underlying Read to the next
\* Read or to its return. buf is the unread content of the bufio buffer, res
\* the accumulator (with the fragments ReadBytes has collected so far), pend
\* the error the last Read left in the reader (b.err), NilErr if none.
\*   st = "read": ReadSlice calls fill, the next Read of the source;
\*   st = "ret":  readOut returns (data, err).
RECURSIVE ReadOutLoop(_, _, _)
ReadOutLoop(buf, res, pend) ==
    LET i == IndexNL(buf)
    IN  IF i > 0
        THEN \* ReadSlice finds the delimiter; ReadBytes returns (line, nil).
             LET res2 == Accumulate(res, SubSeq(buf, 1, i))
                 rest == Drop(buf, i)
             IN  IF NotExpectingMore(rest)
                 THEN [st |-> "ret", buf |-> rest, res |-> res2, data |-> res2,
                       err |-> NilErr]
                 ELSE ReadOutLoop(rest, res2, pend)
        ELSE IF pend # NilErr
        THEN \* ReadSlice returns the rest of the buffer with b.err, which
             \* readErr clears.
             LET res2 == Accumulate(res, buf)
                 e == ReadOutError(pend, 0)
             IN  IF e.st = "again"
                 THEN ReadOutLoop(<<>>, res2, NilErr)
                 ELSE [st |-> "ret", buf |-> <<>>, res |-> res2, data |-> <<>>,
                       err |-> e.err]
        ELSE IF Len(buf) >= BufSize
        THEN \* bufio.ErrBufferFull: collectFragments keeps the full buffer
             \* as a fragment and calls ReadSlice again, which fills.
             [st |-> "read", buf |-> <<>>, res |-> res \o buf, data |-> <<>>,
              err |-> NilErr]
        ELSE [st |-> "read", buf |-> buf, res |-> res, data |-> <<>>,
              err |-> NilErr]

\* writeOut's classification of a failed Write (telnet.go:179-184).
WriteOutError(err) ==
    IF err = NilErr THEN NilErr
    ELSE IF ErrorsIs(err, "net.ErrClosed") THEN Wrap2(ErrConnClosed, err)
    ELSE Wrap("unable to write out the data", err)

\* ------------------------------------------------------------------ state
VARIABLES
    c,          \* the client struct: address, timeout, in, out, conn
    mu,         \* c.mu: w = the task holding the writer mutex (0: none),
                \*       readers = the number of read locks held
    task,       \* per task: the position in its call, and its locals
    inS,        \* the input stream: unread data, ended, Close calls, kind
    net,        \* per handle: state, Close calls, rx (unread bytes from the
                \*   peer), fin (the peer closed), tx (bytes the peer got)
    outS,       \* the bytes written to the output stream
    nextH,      \* the handle the next successful dial returns
    calls,      \* calls started so far
    closesDone, \* Close calls that have returned
    crashed,    \* a task panicked: the process is gone
    cfg,        \* the environment of this behaviour (fixed by Init)
    hist,       \* history of the session, for the properties:
                \*   live: a Connect has returned success and no Close has
                \*         been invoked since,
                \*   held: per task, the read locks it took and has not
                \*         released
    orch        \* main of cmd/main.go: its position (pc, "off" when the
                \*   callers are arbitrary tasks), ctx (cancelled), errCh,
                \*   and the position of each relay loop

vars == <<c, mu, task, inS, net, outS, nextH, calls, closesDone, crashed, cfg,
          hist, orch>>

Idle ==
    [pc |-> "idle", op |-> "none", ret |-> NoRet, vis |-> {}, rd |-> NoConn,
     buf |-> <<>>, res |-> <<>>, data |-> <<>>, h |-> NoConn,
     addr |-> "", tmo |-> 0,
     \* history of the call, for the properties
     absent |-> FALSE, passed |-> FALSE, reads |-> 0, writes |-> 0,
     avail |-> <<>>, consumed |-> <<>>, wrote |-> <<>>, sink |-> NoConn,
     before |-> <<>>,
     rerr |-> NilErr, werr |-> NilErr, closesAtCall |-> 0,
     closed |-> "", inErr |-> NoRet, connErr |-> NoRet]

NewNet == [state |-> "unused", closes |-> 0, rx |-> <<>>, fin |-> FALSE, tx |-> <<>>]

\* NewClient (telnet.go:56-63) over the bounded environments of cfg0. The
\* peer is the same on every connection: it sends cfg.rx and then closes its
\* side or not (cfg.fin).
InitWith(cfg0) ==
    /\ \E d \in cfg0.rxs, f \in BOOLEAN :
          cfg = [faults |-> cfg0.faults, rx |-> d, fin |-> f]
    /\ \E a \in cfg0.addresses, tm \in cfg0.timeouts,
          i \in cfg0.streams, o \in cfg0.streams :
          c = [address |-> a, timeout |-> tm, in |-> i, out |-> o, conn |-> NoConn]
    /\ mu = [w |-> 0, readers |-> 0]
    /\ task = [t \in cfg0.tasks |-> Idle]
    /\ \E d \in cfg0.inputs, e \in BOOLEAN, k \in cfg0.kinds :
          /\ inS = [data |-> d, eof |-> e, closes |-> 0, kind |-> k]
          \* an absent input stream has no content to choose
          /\ c.in \/ (d = <<>> /\ e /\ k = "nop")
    /\ net = [h \in Handles |-> NewNet]
    /\ outS = <<>>
    /\ nextH = 1
    /\ calls = 0
    /\ closesDone = 0
    /\ crashed = FALSE
    /\ hist = [live |-> FALSE, held |-> [t \in cfg0.tasks |-> 0]]
    /\ orch = [pc |-> cfg0.main, ctx |-> FALSE, errCh |-> <<>>,
               loop |-> [t \in Relays |-> "off"]]

\* ------------------------------------------------------------------ steps
\* The process runs: no task has panicked and main has not returned.
Running == ~crashed /\ orch.pc \notin {"failed", "exit"}

Set(t, r) == task' = [task EXCEPT ![t] = r]

\* The tasks that have left the lock and have yet to load c.conn: Send reads
\* it at telnet.go:121, Receive at telnet.go:137, neither under the lock.
Racing(u) == task[u].pc \in {"s_read", "s_write", "r_load"}

\* Task t, under the write lock, writes v to c.conn and becomes r. The write
\* races with the loads of the Racing tasks: each of them may observe any
\* value c.conn has held since its own check (vis), or a torn mix of them.
Store(t, v, r) ==
    task' = [u \in DOMAIN task |->
               IF u = t THEN r
               ELSE IF Racing(u) THEN [task[u] EXCEPT !.vis = @ \cup {v}]
               ELSE task[u]]

\* The call returns e: the task is idle again and keeps the call's history.
Returned(e, r) ==
    [r EXCEPT !.pc = "idle", !.ret = e, !.buf = <<>>, !.data = <<>>,
              !.rd = NoConn, !.h = NoConn, !.vis = {}]

Return(t, e, r) ==
    Set(t, [r EXCEPT !.pc = "idle", !.ret = e, !.buf = <<>>, !.data = <<>>,
                     !.rd = NoConn, !.h = NoConn, !.vis = {}])

\* c.mu.RLock(): blocks while a writer holds or waits for the lock.
CanRLock == mu.w = 0
\* c.mu.Lock(), first half: take the writer mutex, which stops new readers.
CanLock == mu.w = 0
\* c.mu.Lock(), second half: wait for the readers to leave.
Locked(t) == mu.w = t /\ mu.readers = 0

\* The calls main.go makes: Connect (main.go:36) and the deferred Close
\* (main.go:42) by main, Send (main.go:62) and Receive (main.go:77) by the
\* relay loops, each in the default branch of its select.
MainCalls(t, op) ==
    \/ t = Main /\ op = "Connect" /\ orch.pc = "connect" /\ task[t].op = "none"
    \/ t = Main /\ op = "Close" /\ orch.pc = "close" /\ task[t].op = "Connect"
    \/ /\ t \in Relays
       /\ op = (IF t = Sender THEN "Send" ELSE "Receive")
       /\ orch.loop[t] = "call"
       /\ task[t].ret = NoRet
       /\ calls < MaxCalls

\* A task invokes a method: the guard of the call, and its fresh locals.
\* With arbitrary callers the tasks are interchangeable: of the idle ones,
\* the first makes the call. Under main.go the program decides.
CanCall(t, op) ==
    /\ Running
    /\ task[t].pc = "idle"
    /\ IF orch.pc = "off"
       THEN /\ \A u \in DOMAIN task : task[u].pc = "idle" => t <= u
            /\ calls < MaxCalls
       ELSE MainCalls(t, op)

Called(op) == [Idle EXCEPT !.op = op, !.closesAtCall = closesDone]

\* ---------------------------------------------------------------- Connect
\* telnet.go:66-69: the call, and the fields read under the read lock, which
\* is released before the dial.
ConnectRead(t) ==
    /\ CanCall(t, "Connect")
    /\ nextH <= MaxHandles
    /\ CanRLock
    /\ calls' = calls + 1
    /\ Set(t, [Called("Connect") EXCEPT !.pc = "c_dial", !.addr = c.address,
                                        !.tmo = c.timeout])
    /\ UNCHANGED <<c, mu, inS, net, outS, nextH, closesDone, crashed, cfg, hist, orch>>

\* net.DialTimeout("tcp", address, timeout): a Dialer with Timeout = timeout.
\* A zero Timeout means no timeout; a negative one is a deadline in the past.
\* TRUE: the dial may succeed; FALSE: it may fail.
DialOutcomes(address, timeout) ==
    IF timeout < 0 \/ address = "down" THEN {FALSE} ELSE {TRUE, FALSE}

\* A Connect that stores the nil connection of its failed dial.
FailedDialStoresNil(s) == [s EXCEPT !.conn = NoConn]

\* telnet.go:71-73: the client after a failed dial; nothing is assigned.
FailedDial(s) == s

\* telnet.go:70-73. A successful dial yields a fresh open connection, on
\* which the peer has sent cfg.rx and may have closed its side.
ConnectDial(t) ==
    /\ Running
    /\ task[t].pc = "c_dial"
    /\ \E ok \in DialOutcomes(task[t].addr, task[t].tmo) :
          IF ok
          THEN /\ nextH <= MaxHandles
               /\ net' = [net EXCEPT ![nextH] =
                             [NewNet EXCEPT !.state = "open", !.rx = cfg.rx,
                                            !.fin = cfg.fin]]
               /\ nextH' = nextH + 1
               /\ Set(t, [task[t] EXCEPT !.pc = "c_lock", !.h = nextH])
               /\ c' = c
          ELSE /\ Return(t, Wrap("connection failed", DialErr), task[t])
               /\ c' = FailedDial(c)
               /\ UNCHANGED <<net, nextH>>
    /\ UNCHANGED <<mu, inS, outS, calls, closesDone, crashed, cfg, hist, orch>>

\* telnet.go:74, first half
ConnectLock(t) ==
    /\ Running
    /\ task[t].pc = "c_lock"
    /\ CanLock
    /\ mu' = [mu EXCEPT !.w = t]
    /\ Set(t, [task[t] EXCEPT !.pc = "c_store"])
    /\ UNCHANGED <<c, inS, net, outS, nextH, calls, closesDone, crashed, cfg, hist, orch>>

\* A Connect that keeps the connection it has dialed to itself.
ConnectedNowhere(s, h) == s

\* telnet.go:75: c.conn = conn
Connected(s, h) == [s EXCEPT !.conn = h]

\* telnet.go:74-77
ConnectStore(t) ==
    /\ Running
    /\ task[t].pc = "c_store"
    /\ Locked(t)
    /\ c' = Connected(c, task[t].h)
    /\ mu' = [mu EXCEPT !.w = 0]
    /\ Store(t, task[t].h, Returned(NilErr, task[t]))
    /\ hist' = [hist EXCEPT !.live = TRUE]
    /\ UNCHANGED <<inS, net, outS, nextH, calls, closesDone, crashed, cfg, orch>>

\* ------------------------------------------------------------------ Close
\* telnet.go:81-82: the call, and the first half of c.mu.Lock().
CloseLock(t) ==
    /\ CanCall(t, "Close")
    /\ CanLock
    /\ calls' = calls + 1
    /\ mu' = [mu EXCEPT !.w = t]
    /\ Set(t, [Called("Close") EXCEPT !.pc = "cl_body"])
    /\ hist' = [hist EXCEPT !.live = FALSE]
    /\ UNCHANGED <<c, inS, net, outS, nextH, closesDone, crashed, cfg, orch>>

\* The switch of Close (telnet.go:86-99): which resources it closes.
CloseCase(conn, in) ==
    IF conn # NoConn /\ in THEN "both"
    ELSE IF conn # NoConn THEN "conn"
    ELSE IF in THEN "in"
    ELSE "none"

\* A Close that gives the priority to the error of the input stream.
CloseBothErrInFirst(connErr, inErr) == IF inErr = NilErr THEN connErr ELSE inErr

\* telnet.go:88-92: the error of the first case.
CloseBothErr(connErr, inErr) == IF connErr = NilErr THEN inErr ELSE connErr

\* telnet.go:82-101, under the write lock. The close operations may fail.
CloseBody(t) ==
    /\ Running
    /\ task[t].pc = "cl_body"
    /\ Locked(t)
    /\ LET cs == CloseCase(c.conn, c.in)
           h == c.conn
       IN  \E inErr \in {NilErr, InCloseErr}, connErr \in {NilErr, ConnCloseErr} :
             /\ (cs \in {"conn", "none"}) => inErr = NilErr
             /\ (cs \in {"in", "none"}) => connErr = NilErr
             /\ inS' = IF cs \in {"both", "in"}
                       THEN [inS EXCEPT !.closes = @ + 1] ELSE inS
             /\ net' = IF cs \in {"both", "conn"}
                       THEN [net EXCEPT ![h].closes = @ + 1, ![h].state = "closed"]
                       ELSE net
             /\ c' = IF cs = "none" THEN c ELSE [c EXCEPT !.conn = NoConn]
             /\ LET e == CASE cs = "both" -> CloseBothErr(connErr, inErr)
                           [] cs = "conn" -> connErr
                           [] cs = "in" -> inErr
                           [] cs = "none" -> NilErr
                    r == [task[t] EXCEPT
                            !.closed = cs,
                            !.inErr = IF cs \in {"both", "in"} THEN inErr ELSE NoRet,
                            !.connErr = IF cs \in {"both", "conn"} THEN connErr
                                        ELSE NoRet]
                IN  IF cs = "none" THEN Return(t, e, r)
                    ELSE Store(t, NoConn, Returned(e, r))
    /\ mu' = [mu EXCEPT !.w = 0]
    /\ closesDone' = closesDone + 1
    /\ UNCHANGED <<outS, nextH, calls, crashed, cfg, hist, orch>>

\* ------------------------------------------------- the streams' operations
\* The unread content of a source and whether it has ended.
SrcData(src) == IF src = InSrc THEN inS.data ELSE net[src].rx
SrcEnded(src) == IF src = InSrc THEN inS.eof ELSE net[src].fin
\* The error every Read of the source returns since it was closed, if any:
\* a closed net.Conn gives net.ErrClosed, a closed file os.ErrClosed, and an
\* io.NopCloser closes nothing.
SrcClosedErr(src) ==
    IF src = InSrc
    THEN IF inS.closes > 0 /\ inS.kind = "file" THEN OsErrClosed ELSE NilErr
    ELSE IF net[src].state = "closed" THEN NetErrClosed ELSE NilErr

\* The results one Read(p) of the source may have, len(p) = space: the bytes
\* it holds, io.EOF when it is exhausted and ended, nothing (the call blocks)
\* when it is exhausted and open; and any Read may fail.
ReadOutcomes(src, space) ==
    (IF SrcClosedErr(src) # NilErr
     THEN {[bytes |-> <<>>, err |-> SrcClosedErr(src)]}
     ELSE IF SrcData(src) # <<>>
     THEN {[bytes |-> Take(SrcData(src), space), err |-> NilErr]}
     ELSE IF SrcEnded(src) THEN {[bytes |-> <<>>, err |-> IoEOF]}
     ELSE {})
    \cup (IF cfg.faults THEN {[bytes |-> <<>>, err |-> OtherErr]} ELSE {})

\* A read blocks: only a failure of the source can end it.
Blocked(src) ==
    SrcClosedErr(src) = NilErr /\ SrcData(src) = <<>> /\ ~SrcEnded(src)

\* The errors one Write to connection h may return.
ConnWriteOutcomes(h) ==
    IF net[h].state = "closed" THEN {NetErrClosed}
    ELSE {NilErr} \cup (IF cfg.faults THEN {OtherErr} ELSE {})

\* The values an unsynchronised load of c.conn may give to a task that has
\* seen vis: any of them, and a torn interface value when a nil and a
\* handle are among them.
LoadConn(vis) ==
    vis \cup (IF NoConn \in vis /\ vis \cap Handles # {} THEN {TornConn} ELSE {})

\* A method call through the nil interface, or through a torn one without
\* its type word, is a nil dereference.
Panic(t) ==
    /\ crashed' = TRUE
    /\ Set(t, [task[t] EXCEPT !.pc = "panic"])

\* ------------------------------------------------------------------- Send
\* A presence check that wants both the connection and the stream absent.
SendAbsentBoth(conn, in) == conn = NoConn /\ ~in

\* telnet.go:107
SendAbsent(conn, in) == conn = NoConn \/ ~in

\* telnet.go:105-110: the call and the presence check under the read lock.
\* held is the number of read locks the call holds when it leaves the check:
\* the return of line 108 does not release the lock.
SendCheck(t) ==
    /\ CanCall(t, "Send")
    /\ CanRLock
    /\ calls' = calls + 1
    /\ LET r == [Called("Send") EXCEPT !.absent = (c.conn = NoConn \/ ~c.in)]
       IN  IF SendAbsent(c.conn, c.in)
           THEN /\ Return(t, ConfigErr, r)
                /\ mu' = [mu EXCEPT !.readers = @ + 1]
                /\ hist' = [hist EXCEPT !.held[t] = @ + 1]
           ELSE /\ Set(t, [r EXCEPT !.pc = "s_read", !.passed = TRUE,
                                    !.vis = {c.conn}, !.rd = InSrc])
                /\ UNCHANGED <<mu, hist>>
    /\ UNCHANGED <<c, inS, net, outS, nextH, closesDone, crashed, cfg, orch>>

\* One Read of the source by the bufio.Reader of readOut (telnet.go:151-174),
\* followed by the loop of readOut up to its next Read or its return. o is
\* the result of the Read; the returned record is the task after it, with
\* pc = "ret" when readOut has returned (data, err).
ReadOut(r, o) ==
    LET L == ReadOutLoop(r.buf \o o.bytes, r.res, o.err)
        g == [r EXCEPT !.reads = @ + 1,
                       !.avail = IF r.reads = 0 THEN SrcData(r.rd) ELSE @,
                       !.consumed = @ \o o.bytes,
                       !.rerr = o.err,
                       !.buf = L.buf, !.res = L.res, !.data = L.data]
    IN  IF L.st = "read" THEN g ELSE [g EXCEPT !.pc = "ret", !.ret = L.err]

\* The source after a Read that delivered the bytes of o.
Consume(src, o) ==
    /\ inS' = IF src = InSrc THEN [inS EXCEPT !.data = Drop(@, Len(o.bytes))] ELSE inS
    /\ net' = IF src \in Handles
              THEN [net EXCEPT ![src].rx = Drop(@, Len(o.bytes))] ELSE net

\* telnet.go:112-119: readOut(c.in), one Read at a time, then the checks of
\* its result.
SendRead(t) ==
    /\ Running
    /\ task[t].pc = "s_read"
    /\ \E o \in ReadOutcomes(InSrc, BufSize - Len(task[t].buf)) :
          LET r == ReadOut(task[t], o)
          IN  /\ Consume(InSrc, o)
              /\ IF r.pc # "ret" THEN Set(t, r)
                 ELSE IF r.ret # NilErr THEN Return(t, r.ret, r)
                 ELSE IF Len(r.data) = 0 THEN Return(t, ErrEOT, r)
                 ELSE Set(t, [r EXCEPT !.pc = "s_write", !.ret = NoRet])
    /\ UNCHANGED <<c, mu, outS, nextH, calls, closesDone, crashed, cfg, hist, orch>>

\* telnet.go:121-126: writeOut(c.conn, data). c.conn is loaded without the
\* lock.
SendWrite(t) ==
    /\ Running
    /\ task[t].pc = "s_write"
    /\ \E w \in LoadConn(task[t].vis) :
          \/ /\ w \in {NoConn, TornConn}
             /\ Panic(t)
             /\ UNCHANGED net
          \/ /\ w = TornConn
             /\ Return(t, WriteOutError(OtherErr),
                       [task[t] EXCEPT !.werr = OtherErr, !.sink = w])
             /\ UNCHANGED <<net, crashed>>
          \/ /\ w \in Handles
             /\ \E e \in ConnWriteOutcomes(w) :
                   /\ net' = IF e = NilErr
                             THEN [net EXCEPT ![w].tx = @ \o task[t].data] ELSE net
                   /\ Return(t, WriteOutError(e),
                             [task[t] EXCEPT !.writes = @ + 1, !.werr = e, !.sink = w,
                                  !.before = net[w].tx,
                                  !.wrote = IF e = NilErr THEN task[t].data ELSE <<>>])
             /\ UNCHANGED crashed
    /\ UNCHANGED <<c, mu, inS, outS, nextH, calls, closesDone, cfg, hist, orch>>

\* ---------------------------------------------------------------- Receive
\* A presence check that looks at the connection alone.
ReceiveAbsentConnOnly(conn, out) == conn = NoConn

\* telnet.go:132
ReceiveAbsent(conn, out) == conn = NoConn \/ ~out

\* telnet.go:130-135: the call and the presence check under the read lock.
\* The return of line 133 does not release the lock.
ReceiveCheck(t) ==
    /\ CanCall(t, "Receive")
    /\ CanRLock
    /\ calls' = calls + 1
    /\ LET r == [Called("Receive") EXCEPT !.absent = (c.conn = NoConn \/ ~c.out)]
       IN  IF ReceiveAbsent(c.conn, c.out)
           THEN /\ Return(t, ConfigErr, r)
                /\ mu' = [mu EXCEPT !.readers = @ + 1]
                /\ hist' = [hist EXCEPT !.held[t] = @ + 1]
           ELSE /\ Set(t, [r EXCEPT !.pc = "r_load", !.passed = TRUE,
                                    !.vis = {c.conn}])
                /\ UNCHANGED <<mu, hist>>
    /\ UNCHANGED <<c, inS, net, outS, nextH, closesDone, crashed, cfg, orch>>

\* telnet.go:137: the argument of readOut, c.conn loaded without the lock,
\* becomes the source of a new bufio.Reader (telnet.go:152).
ReceiveLoad(t) ==
    /\ Running
    /\ task[t].pc = "r_load"
    /\ \E w \in LoadConn(task[t].vis) :
          Set(t, [task[t] EXCEPT !.pc = "r_read", !.rd = w, !.vis = {}])
    /\ UNCHANGED <<c, mu, inS, net, outS, nextH, calls, closesDone, crashed, cfg, hist, orch>>

\* telnet.go:137-140: readOut(c.conn), one Read at a time.
ReceiveRead(t) ==
    /\ Running
    /\ task[t].pc = "r_read"
    /\ LET src == task[t].rd
       IN  \/ /\ src \in {NoConn, TornConn}
              /\ Panic(t)
              /\ UNCHANGED <<inS, net>>
           \/ /\ src = TornConn
              /\ Return(t, ReadOutError(OtherErr, 0).err,
                        [task[t] EXCEPT !.rerr = OtherErr])
              /\ UNCHANGED <<inS, net, crashed>>
           \/ /\ src \in Handles
              /\ \E o \in ReadOutcomes(src, BufSize - Len(task[t].buf)) :
                    LET r == ReadOut(task[t], o)
                    IN  /\ Consume(src, o)
                        /\ IF r.pc # "ret" THEN Set(t, r)
                           ELSE IF r.ret # NilErr THEN Return(t, r.ret, r)
                           ELSE Set(t, [r EXCEPT !.pc = "r_write", !.ret = NoRet])
              /\ UNCHANGED crashed
    /\ UNCHANGED <<c, mu, outS, nextH, calls, closesDone, cfg, hist, orch>>

\* The errors one Write to the output stream may return.
OutWriteOutcomes == {NilErr} \cup (IF cfg.faults THEN {OtherErr} ELSE {})

\* telnet.go:142-147: writeOut(c.out, data).
ReceiveWrite(t) ==
    /\ Running
    /\ task[t].pc = "r_write"
    /\ \E e \in OutWriteOutcomes :
          /\ outS' = IF e = NilErr THEN outS \o task[t].data ELSE outS
          /\ Return(t, WriteOutError(e),
                    [task[t] EXCEPT !.writes = @ + 1, !.werr = e,
                         !.before = outS,
                         !.wrote = IF e = NilErr THEN task[t].data ELSE <<>>])
    /\ UNCHANGED <<c, mu, inS, net, nextH, calls, closesDone, crashed, cfg, hist, orch>>

\* ------------------------------------------------------------ cmd/main.go
\* main.go:36-83: Connect has returned. On an error main returns; otherwise
\* it defers the Close of the client, makes errCh and ctx, and starts the
\* two relay goroutines.
MainConnected ==
    /\ Running
    /\ orch.pc = "connect"
    /\ task[Main].pc = "idle" /\ task[Main].op = "Connect"
    /\ orch' = IF task[Main].ret # NilErr
               THEN [orch EXCEPT !.pc = "failed"]
               ELSE [orch EXCEPT !.pc = "wait",
                                 !.loop = [t \in Relays |-> "select"]]
    /\ UNCHANGED <<c, mu, task, inS, net, outS, nextH, calls, closesDone,
                   crashed, cfg, hist>>

\* signal.NotifyContext (main.go:52): SIGINT or SIGTERM cancels ctx.
Signal ==
    /\ Running
    /\ orch.pc = "wait"
    /\ ~orch.ctx
    /\ orch' = [orch EXCEPT !.ctx = TRUE]
    /\ UNCHANGED <<c, mu, task, inS, net, outS, nextH, calls, closesDone,
                   crashed, cfg, hist>>

\* main.go:86-98: main waits for ctx or for an error of a relay loop, and
\* returns: the deferred cancel() runs (main.go:53), and the deferred
\* function that calls Close is next (main.go:41-48).
MainSelect ==
    /\ Running
    /\ orch.pc = "wait"
    /\ \/ /\ orch.ctx
          /\ orch' = [orch EXCEPT !.pc = "close"]
       \/ /\ orch.errCh # <<>>
          /\ orch' = [orch EXCEPT !.pc = "close", !.ctx = TRUE,
                                  !.errCh = Tail(@)]
    /\ UNCHANGED <<c, mu, task, inS, net, outS, nextH, calls, closesDone,
                   crashed, cfg, hist>>

\* main.go:42-48: the deferred Close has returned; main ends, and the
\* process with it.
MainExit ==
    /\ Running
    /\ orch.pc = "close"
    /\ task[Main].pc = "idle" /\ task[Main].op = "Close"
    /\ orch' = [orch EXCEPT !.pc = "exit"]
    /\ UNCHANGED <<c, mu, task, inS, net, outS, nextH, calls, closesDone,
                   crashed, cfg, hist>>

\* main.go:58-62 and 73-77: the select of a relay loop. It returns when ctx
\* is cancelled and makes its call otherwise (err is a fresh variable).
LoopSelect(t) ==
    /\ Running
    /\ orch.loop[t] = "select"
    /\ IF orch.ctx
       THEN /\ orch' = [orch EXCEPT !.loop[t] = "done"]
            /\ UNCHANGED task
       ELSE /\ orch' = [orch EXCEPT !.loop[t] = "call"]
            /\ Set(t, Idle)
    /\ UNCHANGED <<c, mu, inS, net, outS, nextH, calls, closesDone, crashed,
                   cfg, hist>>

\* A relay loop that goes on whatever its call returned.
LoopStopsNever(err) == FALSE

\* main.go:62 and 77: err != nil
LoopStops(err) == err # NilErr

\* main.go:62-66 and 77-81: the call has returned; on an error the loop
\* goes to report it, otherwise it goes round.
LoopResult(t) ==
    /\ Running
    /\ orch.loop[t] = "call"
    /\ task[t].pc = "idle" /\ task[t].ret # NoRet
    /\ orch' = [orch EXCEPT !.loop[t] = IF LoopStops(task[t].ret) THEN "report"
                                        ELSE "select"]
    /\ UNCHANGED <<c, mu, task, inS, net, outS, nextH, calls, closesDone,
                   crashed, cfg, hist>>

\* main.go:63-64 and 78-79: errCh <- err, which blocks while the channel is
\* full, and return.
LoopReport(t) ==
    /\ Running
    /\ orch.loop[t] = "report"
    /\ Len(orch.errCh) < ErrChCap
    /\ orch' = [orch EXCEPT !.errCh = Append(@, task[t].ret),
                            !.loop[t] = "done"]
    /\ UNCHANGED <<c, mu, task, inS, net, outS, nextH, calls, closesDone,
                   crashed, cfg, hist>>

\* ------------------------------------------------------- specifications
Step(t) ==
    \/ ConnectRead(t)
    \/ ConnectDial(t)
    \/ ConnectLock(t)
    \/ ConnectStore(t)
    \/ CloseLock(t)
    \/ CloseBody(t)
    \/ SendCheck(t)
    \/ SendRead(t)
    \/ SendWrite(t)
    \/ ReceiveCheck(t)
    \/ ReceiveLoad(t)
    \/ ReceiveRead(t)
    \/ ReceiveWrite(t)

\* Two tasks call the four methods of one client in any order and at any
\* time; the streams hold at most one byte, and their operations may fail.
ConcCfg ==
    [addresses |-> {"up"}, timeouts |-> {1}, inputs |-> {<<>>, <<NL>>},
     kinds |-> {"nop", "file"}, rxs |-> {<<>>, <<NL>>}, faults |-> FALSE,
     tasks |-> Tasks, streams |-> BOOLEAN, main |-> "off"]

Init == InitWith(ConcCfg)
Next == \E t \in Tasks : Step(t)
Spec == Init /\ [][Next]_vars

\* One task calls Connect, Close and Send one after the other; the input
\* stream holds any content of at most MaxLen bytes, the peer sends nothing,
\* and the operations of the streams may fail.
SendCfg ==
    [addresses |-> {"up"}, timeouts |-> {1}, inputs |-> SeqsUpTo(MaxLen),
     kinds |-> {"nop"}, rxs |-> {<<>>}, faults |-> TRUE,
     tasks |-> Tasks, streams |-> BOOLEAN, main |-> "off"]

InitSend == InitWith(SendCfg)
NextSend ==
    \/ ConnectRead(1)
    \/ ConnectDial(1)
    \/ ConnectLock(1)
    \/ ConnectStore(1)
    \/ CloseLock(1)
    \/ CloseBody(1)
    \/ SendCheck(1)
    \/ SendRead(1)
    \/ SendWrite(1)
SpecSend == InitSend /\ [][NextSend]_vars

\* One task calls Connect, Close and Receive one after the other; the peer
\* has sent any content of at most MaxLen bytes, the input stream is empty,
\* and the operations of the streams may fail.
RecvCfg ==
    [addresses |-> {"up"}, timeouts |-> {1}, inputs |-> {<<>>},
     kinds |-> {"nop"}, rxs |-> SeqsUpTo(MaxLen), faults |-> TRUE,
     tasks |-> Tasks, streams |-> BOOLEAN, main |-> "off"]

InitRecv == InitWith(RecvCfg)
NextRecv ==
    \/ ConnectRead(1)
    \/ ConnectDial(1)
    \/ ConnectLock(1)
    \/ ConnectStore(1)
    \/ CloseLock(1)
    \/ CloseBody(1)
    \/ ReceiveCheck(1)
    \/ ReceiveLoad(1)
    \/ ReceiveRead(1)
    \/ ReceiveWrite(1)
SpecRecv == InitRecv /\ [][NextRecv]_vars

\* Two tasks call Connect and Close in any order and at any time on a
\* session of any configuration: the address is reachable or not, the
\* timeout negative, zero or positive, the close operations may fail.
ConnCfg ==
    [addresses |-> {"up", "down"}, timeouts |-> {-1, 0, 1}, inputs |-> {<<>>},
     kinds |-> {"nop", "file"}, rxs |-> {<<>>}, faults |-> FALSE,
     tasks |-> Tasks, streams |-> BOOLEAN, main |-> "off"]

InitConn == InitWith(ConnCfg)
NextConn ==
    \E t \in Tasks :
        \/ ConnectRead(t)
        \/ ConnectDial(t)
        \/ ConnectLock(t)
        \/ ConnectStore(t)
        \/ CloseLock(t)
        \/ CloseBody(t)
SpecConn == InitConn /\ [][NextConn]_vars

\* One task calls Connect, Send and Receive one after the other on a
\* session with both streams; the input stream and the peer each hold any
\* content of at most MaxLen bytes, and the operations of the streams may
\* fail.
RelayCfg ==
    [addresses |-> {"up"}, timeouts |-> {1}, inputs |-> SeqsUpTo(MaxLen),
     kinds |-> {"nop"}, rxs |-> SeqsUpTo(MaxLen), faults |-> TRUE,
     tasks |-> Tasks, streams |-> {TRUE}, main |-> "off"]

InitRelay == InitWith(RelayCfg)
NextRelay ==
    \/ ConnectRead(1)
    \/ ConnectDial(1)
    \/ ConnectLock(1)
    \/ ConnectStore(1)
    \/ SendCheck(1)
    \/ SendRead(1)
    \/ SendWrite(1)
    \/ ReceiveCheck(1)
    \/ ReceiveLoad(1)
    \/ ReceiveRead(1)
    \/ ReceiveWrite(1)
SpecRelay == InitRelay /\ [][NextRelay]_vars

\* The program of cmd/main.go: the client over the standard streams, main
\* and its two relay loops. The input holds at most one line, the peer
\* sends at most one line, and each of them ends or not.
MainCfg ==
    [addresses |-> {"up"}, timeouts |-> {1}, inputs |-> {<<>>, <<NL>>},
     kinds |-> {"file"}, rxs |-> {<<>>, <<NL>>}, faults |-> FALSE,
     tasks |-> MainTasks, streams |-> {TRUE}, main |-> "connect"]

InitMain == InitWith(MainCfg)
NextMain ==
    \/ \E t \in MainTasks : Step(t)
    \/ MainConnected
    \/ Signal
    \/ MainSelect
    \/ MainExit
    \/ \E t \in Relays : LoopSelect(t)
    \/ \E t \in Relays : LoopResult(t)
    \/ \E t \in Relays : LoopReport(t)
SpecMain == InitMain /\ [][NextMain]_vars

\* ------------------------------------------------------------- properties
Done(t, op) == task[t].pc = "idle" /\ task[t].op = op

\* A non-empty sequence of newline-terminated lines.
IsLines(s) == Len(s) > 0 /\ s[Len(s)] = NL

\* C1: every resource is really closed at most once: the close operation of
\* the input stream is invoked at most once, and so is the close operation
\* of every connection handle.
C1_ClosedAtMostOnce ==
    /\ inS.closes <= 1
    /\ \A h \in Handles : net[h].closes <= 1

\* C2: a Send or Receive in flight while Close runs never crashes: it makes
\* no read or write through a cleared connection reference.
C2_InFlightNeverCrashes ==
    \A t \in Tasks : task[t].pc # "panic"

\* Task u is blocked inside Send or Receive: in a Read that has nothing to
\* deliver.
BlockedIn(u) ==
    /\ task[u].pc \in {"s_read", "r_read"}
    /\ task[u].rd \in Handles \cup {InSrc}
    /\ Blocked(task[u].rd)

\* C3: when a task is blocked inside Send or Receive on a connected session
\* and another task has invoked Close, Close does not deadlock: it can go
\* on to close the resources and return. (No running call holds a read
\* lock across steps, so a Close that cannot go on never will.)
C3_CloseReturns ==
    \A t, u \in Tasks :
        (task[t].pc = "cl_body" /\ BlockedIn(u)) => ENABLED CloseBody(t)

\* C4: the line-buffered read returns the end-of-transmission sentinel only
\* when its accumulator is empty: bytes it has accumulated before a clean
\* end-of-stream are never discarded.
C4_EOTOnlyWhenEmpty ==
    \A t \in Tasks :
        (task[t].pc = "idle" /\ ErrorsIs(task[t].ret, "ErrEOT"))
        => task[t].res = <<>>

\* C5: every Close that is called after a Close has returned returns
\* success, whatever the close operations of the resources would return.
C5_LaterCloseSucceeds ==
    \A t \in Tasks :
        (Done(t, "Close") /\ task[t].closesAtCall >= 1) => task[t].ret = NilErr

\* C6: a Send that finds the connection or the input stream absent returns
\* a configuration error, having made no Read and no Write, and does not
\* panic.
C6_SendAbsentIsConfigError ==
    \A t \in Tasks :
        (task[t].op = "Send" /\ task[t].absent)
        => /\ task[t].pc = "idle"
           /\ task[t].ret = ConfigErr
           /\ task[t].reads = 0 /\ task[t].writes = 0 /\ task[t].wrote = <<>>

C6_Witness ==
    \E t \in Tasks :
        /\ Done(t, "Send") /\ task[t].absent /\ task[t].ret = ConfigErr
        /\ c.in /\ c.conn = NoConn /\ closesDone > 0

\* C7: a Receive that finds the connection or the output stream absent
\* returns a configuration error, having read nothing from the connection
\* and written nothing to the output stream.
C7_ReceiveAbsentIsConfigError ==
    \A t \in Tasks :
        (task[t].op = "Receive" /\ task[t].absent)
        => /\ task[t].pc = "idle"
           /\ task[t].ret = ConfigErr
           /\ task[t].reads = 0 /\ task[t].writes = 0 /\ task[t].wrote = <<>>

C7_Witness ==
    \E t \in Tasks :
        /\ Done(t, "Receive") /\ task[t].absent /\ task[t].ret = ConfigErr
        /\ ~c.out /\ c.conn # NoConn

\* The call of task t has returned after its first Read of the source found
\* a clean end-of-stream: no byte was read.
EndedEmpty(t) ==
    /\ task[t].pc = "idle"
    /\ task[t].reads = 1
    /\ task[t].rerr = IoEOF
    /\ task[t].consumed = <<>>

\* C8: a Send or a Receive whose read finds a clean end-of-stream with no
\* byte read returns ErrEOT, an error that is not of the connection-closed
\* class, and writes nothing.
C8_EmptyEndIsEOT ==
    \A t \in Tasks :
        (task[t].op \in {"Send", "Receive"} /\ EndedEmpty(t))
        => /\ task[t].ret = ErrEOT
           /\ ~ErrorsIs(task[t].ret, "ErrConnClosed")
           /\ task[t].writes = 0 /\ task[t].wrote = <<>>

C8_Witness ==
    \E t, u \in Tasks :
        /\ t # u
        /\ Done(t, "Send") /\ EndedEmpty(t) /\ task[t].ret = ErrEOT
        /\ Done(u, "Receive") /\ EndedEmpty(u) /\ task[u].ret = ErrEOT

\* The call of task t has returned, its presence check had passed, the
\* source held the lines avail at its first Read, and no operation of the
\* streams failed.
RelayedLines(t, op) ==
    /\ Done(t, op)
    /\ task[t].passed
    /\ task[t].reads >= 1
    /\ IsLines(task[t].avail)
    /\ task[t].rerr = NilErr /\ task[t].werr = NilErr

\* C9 as stated: one Send relays to the peer all the lines the input stream
\* holds, whatever their number.
C9_SendRelaysAllLines ==
    \A t \in Tasks :
        RelayedLines(t, "Send")
        => /\ task[t].ret = NilErr
           /\ task[t].wrote = task[t].avail
           /\ net[task[t].sink].tx = task[t].before \o task[t].avail

\* C9, amended: one Send relays to the peer all the lines the input stream
\* holds when they fit the buffer of the bufio.Reader: the peer receives
\* exactly those bytes, in order, once.
C9_SendRelaysBufferedLines ==
    \A t \in Tasks :
        (RelayedLines(t, "Send") /\ Len(task[t].avail) <= BufSize)
        => /\ task[t].ret = NilErr
           /\ task[t].wrote = task[t].avail
           /\ net[task[t].sink].tx = task[t].before \o task[t].avail

C9_Witness ==
    \E t \in Tasks :
        /\ RelayedLines(t, "Send")
        /\ task[t].avail = <<NL, NL>>
        /\ task[t].ret = NilErr
        /\ net[task[t].sink].tx = <<NL, NL>>

\* C10 as stated: one Receive appends to the output stream all the lines
\* the peer has sent, whatever their number.
C10_ReceiveRelaysAllLines ==
    \A t \in Tasks :
        RelayedLines(t, "Receive")
        => /\ task[t].ret = NilErr
           /\ task[t].wrote = task[t].avail
           /\ outS = task[t].before \o task[t].avail

\* C10, amended: one Receive appends to the output stream all the lines the
\* peer has sent when they fit the buffer of the bufio.Reader: exactly those
\* bytes, in order, once.
C10_ReceiveRelaysBufferedLines ==
    \A t \in Tasks :
        (RelayedLines(t, "Receive") /\ Len(task[t].avail) <= BufSize)
        => /\ task[t].ret = NilErr
           /\ task[t].wrote = task[t].avail
           /\ outS = task[t].before \o task[t].avail

C10_Witness ==
    \E t \in Tasks :
        /\ RelayedLines(t, "Receive")
        /\ task[t].avail = <<CH, NL>>
        /\ task[t].ret = NilErr
        /\ outS = <<CH, NL>>

\* C11: a Connect whose dial fails returns an error, and no step of it
\* changes a field of the session: the stored connection, the input and
\* output streams, the address and the timeout are after the call what
\* they were before it.
C11_FailedDialChangesNothing ==
    [][\A t \in Tasks :
          /\ (task[t].pc = "idle" /\ task'[t].pc = "c_dial") => c' = c
          /\ (task[t].pc = "c_dial" /\ task'[t].pc = "idle")
             => (task'[t].ret # NilErr /\ c' = c)]_vars

C11_Witness ==
    \E t \in Tasks :
        /\ Done(t, "Connect")
        /\ ErrorsIs(task[t].ret, "dial")
        /\ c.conn \in Handles
        /\ net[c.conn].state = "open"

\* C12: from the return of a successful Connect until a Close is invoked
\* (hist.live) the stored connection is present, and every Send with the
\* input stream present and every Receive with the output stream present
\* that takes its presence check in that interval passes it: none returns
\* the configuration error.
C12_ConnectedUntilClose ==
    [][/\ hist'.live => c'.conn \in Handles
       /\ \A t \in Tasks :
             (/\ hist.live
              /\ task[t].pc = "idle" /\ task'[t] # task[t]
              /\ \/ task'[t].op = "Send" /\ c.in
                 \/ task'[t].op = "Receive" /\ c.out)
             => (task'[t].passed /\ task'[t].ret # ConfigErr)]_vars

C12_Witness ==
    /\ hist.live
    /\ \E t, u \in Tasks :
          /\ task[t].op = "Send" /\ task[t].passed
          /\ task[u].op = "Receive" /\ task[u].passed

\* C13: a Close that finds the connection and the input stream both present
\* invokes the close operation of both, whether or not one of them fails,
\* and returns the error of the connection's close if it failed, otherwise
\* the error of the input stream's close if it failed, otherwise success.
C13_CloseBothPriority ==
    [][\A t \in Tasks :
          (/\ task[t].pc = "cl_body" /\ task'[t].pc = "idle"
           /\ c.conn \in Handles /\ c.in)
          => /\ inS'.closes = inS.closes + 1
             /\ net'[c.conn].closes = net[c.conn].closes + 1
             /\ task'[t].inErr # NoRet /\ task'[t].connErr # NoRet
             /\ task'[t].ret =
                  (IF task'[t].connErr # NilErr THEN task'[t].connErr
                   ELSE IF task'[t].inErr # NilErr THEN task'[t].inErr
                   ELSE NilErr)]_vars

C13_Witness ==
    \E t \in Tasks :
        /\ Done(t, "Close")
        /\ task[t].closed = "both"
        /\ task[t].connErr = ConnCloseErr
        /\ task[t].inErr = InCloseErr
        /\ task[t].ret = ConnCloseErr

\* Task t is inside a call that may block: the dial of Connect, a Read of
\* the source or a Write to the sink of Send and Receive.
InBlockingCall(t) ==
    task[t].pc \in {"c_dial", "s_read", "s_write", "r_read", "r_write"}

\* C14: no task holds the lock of the session, read or write, while it is
\* inside a blocking call.
C14_NoLockWhileBlocking ==
    \A t \in Tasks :
        InBlockingCall(t) => (hist.held[t] = 0 /\ mu.w # t)

\* C15: Connect on a session constructed with a zero or negative timeout
\* always returns an error and stores no connection, whether the address is
\* reachable or not.
C15_NonPositiveTimeoutFails ==
    /\ \A t \in Tasks :
          (Done(t, "Connect") /\ task[t].tmo <= 0) => task[t].ret # NilErr
    /\ c.timeout <= 0 => c.conn = NoConn

\* The Close calls invoked so far: those that have returned and those that
\* are running.
CloseInvocations ==
    closesDone + Cardinality({t \in DOMAIN task : task[t].pc = "cl_body"})

\* The last call of relay loop t has returned an error.
Erred(t) ==
    task[t].pc = "idle" /\ task[t].op # "none" /\ task[t].ret # NilErr

\* C16: in main, once Connect has succeeded, Close is invoked exactly once
\* on every way to the end: not before main leaves its select, then at
\* once, whether a signal or an error of a relay loop ended the wait, and
\* main ends when that one Close has returned. A relay loop whose call has
\* returned an error makes no further call.
C16_CloseOnceLoopsStop ==
    /\ [](/\ CloseInvocations <= 1
          /\ orch.pc \in {"connect", "wait", "failed"} => CloseInvocations = 0
          /\ (orch.pc = "close" /\ ~crashed)
             => \/ ENABLED CloseLock(Main)
                \/ ENABLED CloseBody(Main)
                \/ ENABLED MainExit
          /\ orch.pc = "exit" => closesDone = 1
          /\ crashed => CloseInvocations = 1)
    /\ [][\A t \in Relays : Erred(t) => task'[t] = task[t]]_vars

C16_Witness ==
    /\ orch.pc = "exit"
    /\ closesDone = 1
    /\ \A t \in Relays : Erred(t) /\ orch.loop[t] \in {"report", "done"}

\* C17: a Send or a Receive that has returned, whatever its result, has
\* released the read lock it took; so a Close that is invoked when no other
\* call is running gets the write lock.
C17_ReadLockReleased ==
    \A t \in Tasks :
        /\ (task[t].pc = "idle" /\ task[t].op \in {"Send", "Receive"})
           => hist.held[t] = 0
        /\ (task[t].pc = "cl_body" /\ \A u \in Tasks \ {t} : task[u].pc = "idle")
           => ENABLED CloseBody(t)

ConnectInFlight ==
    \E t \in Tasks : task[t].pc \in {"c_dial", "c_lock", "c_store"}

\* C18: no connection is leaked: when a Close has returned, no Connect is
\* in flight and the session holds no connection, every connection a dial
\* has opened is closed.
C18_NoHandleLeaked ==
    (closesDone > 0 /\ ~ConnectInFlight /\ c.conn = NoConn)
    => \A h \in Handles : net[h].state # "open"

\* The sentinels of the package an error matches.
Sentinels(e) == {x \in {"ErrEOT", "ErrConnClosed"} : ErrorsIs(e, x)}

\* The stream reported that it is closed: a closed connection
\* (net.ErrClosed) or a closed file (os.ErrClosed).
ClosedFailure(e) == ErrorsIs(e, "net.ErrClosed") \/ ErrorsIs(e, "os.ErrClosed")

\* The error ret the adapter returned for the failure e of the stream is of
\* the one kind the failure calls for.
Classified(e, ret) ==
    IF e = IoEOF THEN ret = ErrEOT
    ELSE IF ClosedFailure(e)
    THEN Sentinels(ret) = {"ErrConnClosed"} /\ e.is \subseteq ret.is
    ELSE ret # NilErr /\ Sentinels(ret) = {}

\* C19: readOut and writeOut map each failure of the stream to one kind of
\* error: a clean end-of-stream to ErrEOT, a closed stream to ErrConnClosed
\* wrapping the original, any other failure to an error that matches
\* neither; no error matches both sentinels.
C19_OneKindPerFailure ==
    \A t \in Tasks :
        (task[t].pc = "idle" /\ task[t].op \in {"Send", "Receive"})
        => /\ task[t].rerr # NilErr => Classified(task[t].rerr, task[t].ret)
           /\ task[t].werr # NilErr => Classified(task[t].werr, task[t].ret)
           /\ Sentinels(task[t].ret) # {"ErrEOT", "ErrConnClosed"}

\* C20: no byte is lost between calls. readOut returns successfully only
\* when its bufio.Reader holds no unreturned byte: the chunk it returns is
\* all the call has consumed from the source. So every successful Send and
\* every successful Receive appends to its sink exactly the bytes it has
\* taken from its source, and over successful calls the sink receives the
\* bytes consumed, in order.
C20_NoByteLostBetweenCalls ==
    \A t \in Tasks :
        /\ task[t].pc \in {"s_write", "r_write"}
           => (task[t].buf = <<>> /\ task[t].data = task[t].consumed)
        /\ (Done(t, "Send") /\ task[t].ret = NilErr)
           => /\ task[t].wrote = task[t].consumed
              /\ net[task[t].sink].tx = task[t].before \o task[t].consumed
        /\ (Done(t, "Receive") /\ task[t].ret = NilErr)
           => /\ task[t].wrote = task[t].consumed
              /\ outS = task[t].before \o task[t].consumed

C20_Witness ==
    \E t \in Tasks :
        /\ Done(t, "Send") /\ task[t].ret = NilErr
        /\ task[t].before # <<>>
        /\ task[t].consumed # <<>>
        /\ net[task[t].sink].tx = task[t].before \o task[t].consumed
        /\ inS.data = <<>>
        /\ outS = cfg.rx /\ Len(outS) > BufSize

\* C21: every chunk a successful readOut returns is non-empty and ends with
\* the terminator; so Send and Receive never write an empty or an
\* unterminated chunk, and Send never returns ErrEOT from its own check of
\* the length (telnet.go:117-119): a Send that returns ErrEOT has it from
\* readOut, whose Read reported io.EOF.
C21_ChunksAreLines ==
    \A t \in Tasks :
        /\ task[t].pc \in {"s_write", "r_write"} => IsLines(task[t].data)
        /\ (task[t].pc = "idle" /\ task[t].op \in {"Send", "Receive"}
            /\ task[t].writes > 0 /\ task[t].werr = NilErr)
           => IsLines(task[t].wrote)
        /\ (Done(t, "Send") /\ ErrorsIs(task[t].ret, "ErrEOT"))
           => task[t].rerr = IoEOF

C21_Witness ==
    \E t \in Tasks :
        /\ task[t].pc = "s_write"
        /\ Len(task[t].data) > BufSize
        /\ task[t].data[1] = CH
        /\ IsLines(task[t].data)
        /\ IsLines(outS)

====
